---- MODULE Spec2Model ----
(***************************************************************************)
(* A model of the coinmetrics API client: the catalog reshaping routines   *)
(* of coinmetrics/_catalogs.py and the two example exporters.              *)
(***************************************************************************)
EXTENDS Integers, Sequences, FiniteSets, TLC

(***************************************************************************)
(* Bounds of the model.                                                    *)
(***************************************************************************)
\* How many different assets ASSETS_TO_EXPORT may hold.
MaxAssets == 3

\* The weight of the largest catalog: a record, a metric entry and a frequency
\* entry weigh one each.
MaxWeight == 4

\* The weight of the largest markets catalog: a market record weighs one, plus
\* one for each nested record it carries and one for its own time range.
MaxMarketWeight == 4

\* The length of the longest iterable _expand_df is applied to.
MaxRows == 3

VARIABLES
    \* ---- examples/asset_metrics/reference_rates_json_exporter.py ----
    ASSETS_TO_EXPORT,   \* the set of assets the script is configured with
    mainpc,             \* export_data: "submit", "wait", "returned", "raised"
    tasks,              \* the list `tasks`: tasks[k] is the asset of the k-th job
    taskState,          \* per task: "queued", "running", "done", "failed", "killed"
    taskq,              \* the pool's FIFO of task numbers not yet picked up
    worker,             \* per pool worker: the task it runs, 0 when idle
    openFile,           \* per pool worker: the file it has open for writing, "" when none
    written,            \* the <<task, file>> pairs of every file a job opened
    i,                  \* the loop variable of `for i, task in enumerate(tasks, 1)`
    log,                \* the "processed task: i/n" messages, in emission order
    \* ---- coinmetrics/_catalogs.py ----
    cls,                \* the catalog class to_dataframe is called on
    self,               \* the catalog list: the records the API returned
    secondary_level,    \* the argument of to_dataframe
    cpc,                \* "ready" before the call, "done" after it
    result,             \* what the call returned or raised
    \* ---- _expand_df ----
    ekey,               \* the argument key
    erows,              \* the argument iterable, a sequence of values
    epc,                \* "ready" before the call, "done" after it
    eout,               \* what the call returned or raised
    \* ---- examples/exchange_metrics/exchange_metrics_json_exporter.py ----
    exchange_data,      \* what client.catalog_exchanges(exchanges=exchanges) returned
    frequency,          \* the argument frequency
    mpc,                \* "ready" before the call, "done" after it
    result_dict         \* what get_exchange_metrics_mapping returned or raised

exportVars == <<ASSETS_TO_EXPORT, mainpc, tasks, taskState, taskq, worker,
                openFile, written, i, log>>

catalogVars == <<cls, self, secondary_level, cpc, result>>

expandVars == <<ekey, erows, epc, eout>>

mappingVars == <<exchange_data, frequency, mpc, result_dict>>

vars == <<exportVars, catalogVars, expandVars, mappingVars>>

(***************************************************************************)
(* The reference-rates exporter.                                           *)
(***************************************************************************)
AssetNames == <<"btc", "eth", "ltc", "xrp", "ada", "dot">>

AssetUniverse == {AssetNames[k] : k \in 1..MaxAssets}

DST_ROOT == "./data"

\* processes_count = 2
processes_count_three == 2 + 1

processes_count == 2

Workers == 1..processes_count

\* os.path.join(a, b) for a relative b
join(a, b) == a \o "/" \o b

\* dst_file = join(DST_ROOT, "{}_reference_rates.json".format(asset))
dst_file_shared(asset) == join(DST_ROOT, "reference_rates.json")

dst_file(asset) == join(DST_ROOT, asset \o "_reference_rates.json")

\* AsyncResult.get() returns or raises once the job has finished
task_ready_always(k) == TRUE

task_ready(k) == taskState[k] \in {"done", "failed"}

Submitted == {tasks[k] : k \in 1..Len(tasks)}

\* tasks.append(pool.apply_async(export_asset_data, (asset,))), for the next
\* asset the iteration over the set yields
Submit ==
    /\ mainpc = "submit"
    /\ \E asset \in ASSETS_TO_EXPORT \ Submitted :
          /\ tasks' = Append(tasks, asset)
          /\ taskState' = Append(taskState, "queued")
          /\ taskq' = Append(taskq, Len(tasks) + 1)
    /\ UNCHANGED <<ASSETS_TO_EXPORT, mainpc, worker, openFile, written, i, log>>
    /\ UNCHANGED <<catalogVars, expandVars, mappingVars>>

\* the first loop is exhausted
SubmitDone ==
    /\ mainpc = "submit"
    /\ ASSETS_TO_EXPORT \ Submitted = {}
    /\ mainpc' = "wait"
    /\ UNCHANGED <<ASSETS_TO_EXPORT, tasks, taskState, taskq, worker, openFile,
                   written, i, log>>
    /\ UNCHANGED <<catalogVars, expandVars, mappingVars>>

\* an idle pool worker picks the oldest queued task and enters export_asset_data
WorkerStart(w) ==
    /\ mainpc \in {"submit", "wait"}
    /\ worker[w] = 0
    /\ taskq # <<>>
    /\ worker' = [worker EXCEPT ![w] = Head(taskq)]
    /\ taskq' = Tail(taskq)
    /\ taskState' = [taskState EXCEPT ![Head(taskq)] = "running"]
    /\ UNCHANGED <<ASSETS_TO_EXPORT, mainpc, tasks, openFile, written, i, log>>
    /\ UNCHANGED <<catalogVars, expandVars, mappingVars>>

\* client.catalog_assets(...) answered; open(dst_file, "wb")
JobOpen(w) ==
    /\ worker[w] # 0
    /\ openFile[w] = ""
    /\ openFile' = [openFile EXCEPT ![w] = dst_file(tasks[worker[w]])]
    /\ written' = written \cup {<<worker[w], dst_file(tasks[worker[w]])>>}
    /\ UNCHANGED <<ASSETS_TO_EXPORT, mainpc, tasks, taskState, taskq, worker, i, log>>
    /\ UNCHANGED <<catalogVars, expandVars, mappingVars>>

\* export_to_json finished; the with block closes the file and the job returns
JobFinish(w) ==
    /\ worker[w] # 0
    /\ openFile[w] # ""
    /\ openFile' = [openFile EXCEPT ![w] = ""]
    /\ taskState' = [taskState EXCEPT ![worker[w]] = "done"]
    /\ worker' = [worker EXCEPT ![w] = 0]
    /\ UNCHANGED <<ASSETS_TO_EXPORT, mainpc, tasks, taskq, written, i, log>>
    /\ UNCHANGED <<catalogVars, expandVars, mappingVars>>

\* the job raises (a failed request, an asset the catalog does not list) before or
\* after the file is opened; the with block closes the file; the pool stores the
\* exception in the task's result and the worker goes on
JobRaise(w) ==
    /\ worker[w] # 0
    /\ openFile' = [openFile EXCEPT ![w] = ""]
    /\ taskState' = [taskState EXCEPT ![worker[w]] = "failed"]
    /\ worker' = [worker EXCEPT ![w] = 0]
    /\ UNCHANGED <<ASSETS_TO_EXPORT, mainpc, tasks, taskq, written, i, log>>
    /\ UNCHANGED <<catalogVars, expandVars, mappingVars>>

\* Pool.__exit__: terminate() stops the workers; their open files are closed
\* with the process
Terminated(st) == IF st = "running" THEN "killed" ELSE st

\* task.get() returns; logger.info("processed task: %s/%s", i, len(tasks))
GetOk ==
    /\ mainpc = "wait"
    /\ i <= Len(tasks)
    /\ task_ready(i)
    /\ taskState[i] # "failed"
    /\ log' = Append(log, [i |-> i, n |-> Len(tasks)])
    /\ i' = i + 1
    /\ UNCHANGED <<ASSETS_TO_EXPORT, mainpc, tasks, taskState, taskq, worker,
                   openFile, written>>
    /\ UNCHANGED <<catalogVars, expandVars, mappingVars>>

\* task.get() re-raises the job's exception; it leaves the with block
GetRaise ==
    /\ mainpc = "wait"
    /\ i <= Len(tasks)
    /\ task_ready(i)
    /\ taskState[i] = "failed"
    /\ mainpc' = "raised"
    /\ taskState' = [k \in 1..Len(tasks) |-> Terminated(taskState[k])]
    /\ worker' = [w \in Workers |-> 0]
    /\ openFile' = [w \in Workers |-> ""]
    /\ UNCHANGED <<ASSETS_TO_EXPORT, tasks, taskq, written, i, log>>
    /\ UNCHANGED <<catalogVars, expandVars, mappingVars>>

\* the second loop is exhausted; the with block ends and export_data returns
Return ==
    /\ mainpc = "wait"
    /\ i > Len(tasks)
    /\ mainpc' = "returned"
    /\ taskState' = [k \in 1..Len(tasks) |-> Terminated(taskState[k])]
    /\ worker' = [w \in Workers |-> 0]
    /\ openFile' = [w \in Workers |-> ""]
    /\ UNCHANGED <<ASSETS_TO_EXPORT, tasks, taskq, written, i, log>>
    /\ UNCHANGED <<catalogVars, expandVars, mappingVars>>

NextExport ==
    \/ Submit
    \/ SubmitDone
    \/ \E w \in Workers : WorkerStart(w)
    \/ \E w \in Workers : JobOpen(w)
    \/ \E w \in Workers : JobFinish(w)
    \/ \E w \in Workers : JobRaise(w)
    \/ GetOk
    \/ GetRaise
    \/ Return


(***************************************************************************)
(* Python and pandas values.  A value is a record tagged by its type, so   *)
(* that values of different types can be told apart and compared.          *)
(***************************************************************************)
None == [t |-> "none"]

\* the missing value pandas fills in (float nan, pd.NA)
NaN == [t |-> "nan"]

Str(s) == [t |-> "str", v |-> s]

IntVal(n) == [t |-> "int", v |-> n]

\* a Python list of values
List(xs) == [t |-> "list", v |-> xs]

\* a Python dict with string keys
Dict(d) == [t |-> "dict", v |-> d]

\* the datetime isoparse returns for the timestamp string s
Datetime(s) == [t |-> "datetime", v |-> s]

\* an exception propagating out of an expression
Raised(e) == [t |-> "raise", v |-> e]

IsRaised(x) == x.t = "raise"

\* row[key]
GetItem(row, key) ==
    IF row.t = "dict"
    THEN IF key \in DOMAIN row.v THEN row.v[key] ELSE Raised("KeyError")
    ELSE Raised("TypeError")

\* the first exception among the elements of a sequence of values, if any
FirstRaised(xs) ==
    LET bad == {k \in 1..Len(xs) : IsRaised(xs[k])}
    IN  IF bad = {} THEN None
        ELSE xs[CHOOSE k \in bad : \A j \in bad : k <= j]

AnyRaised(xs) == \E k \in 1..Len(xs) : IsRaised(xs[k])

\* str.endswith
EndsWith(s, suffix) ==
    /\ Len(s) >= Len(suffix)
    /\ SubSeq(s, Len(s) - Len(suffix) + 1, Len(s)) = suffix

IsDigit(c) == c \in {"0", "1", "2", "3", "4", "5", "6", "7", "8", "9"}

\* dateutil.parser.isoparse: a string starting with a four-digit year parses,
\* another string raises ValueError, and a value that is no string TypeError
isoparse(x) ==
    IF x.t = "str"
    THEN IF Len(x.v) >= 4 /\ \A k \in 1..4 : IsDigit(SubSeq(x.v, k, k))
         THEN Datetime(x.v)
         ELSE Raised("ValueError")
    ELSE Raised("TypeError")

\* _convert_utc
_convert_utc(x) ==
    LET r == isoparse(x)
    IN  IF IsRaised(r) /\ r.v = "TypeError" THEN None ELSE r

\* _expand_df._assign_value
_assign_value_keyerror_only(key, row) ==
    LET r == GetItem(row, key)
    IN  IF IsRaised(r) /\ r.v \in {"KeyError"} THEN None ELSE r

_assign_value(key, row) ==
    LET r == GetItem(row, key)
    IN  IF IsRaised(r) /\ r.v \in {"KeyError", "TypeError"} THEN None ELSE r

\* _expand_df: list(map(_assign_value, iterable)); an exception of
\* _assign_value propagates
_expand_df(key, iterable) ==
    LET out == [k \in 1..Len(iterable) |-> _assign_value(key, iterable[k])]
    IN  IF AnyRaised(out) THEN FirstRaised(out) ELSE List(out)

(***************************************************************************)
(* Dataframes: a set of column labels, the index label of each row and the *)
(* rows, each a function from the column labels to values.  exc is the     *)
(* exception the expression raised, "" when it raised none.                *)
(***************************************************************************)
Frame(columns, index, rows) ==
    [exc |-> "", columns |-> columns, index |-> index, rows |-> rows]

RaisedFrame(e) == [exc |-> e, columns |-> {}, index |-> <<>>, rows |-> <<>>]

\* pd.DataFrame(list of dicts): the columns are the keys of all records, a
\* record without a key gets the missing value there; the index is 0..n-1
DataFrame(records) ==
    LET columns == UNION {DOMAIN records[k] : k \in 1..Len(records)}
    IN  Frame(columns,
              [k \in 1..Len(records) |-> k - 1],
              [k \in 1..Len(records) |->
                  [c \in columns |->
                      IF c \in DOMAIN records[k] THEN records[k][c] ELSE NaN]])

\* df[col] as a sequence of values
Column(df, col) == [k \in 1..Len(df.rows) |-> df.rows[k][col]]

\* The rows one row explodes into: one per element of a list, one holding the
\* missing value for an empty list, the row itself for a scalar.  (The
\* exploded cells of the catalogs are lists or scalars.)
ExplodeRow_dropping_empty(row, col) ==
    LET c == row[col]
        pieces == IF c.t = "list" THEN c.v ELSE <<c>>
    IN  [k \in 1..Len(pieces) |-> [row EXCEPT ![col] = pieces[k]]]

ExplodeRow(row, col) ==
    LET c == row[col]
        pieces == IF c.t = "list"
                  THEN IF Len(c.v) = 0 THEN <<NaN>> ELSE c.v
                  ELSE <<c>>
    IN  [k \in 1..Len(pieces) |-> [row EXCEPT ![col] = pieces[k]]]

RECURSIVE ExplodeFrom(_, _, _)
ExplodeFrom(df, col, k) ==
    IF k > Len(df.rows) THEN <<>>
    ELSE LET new == ExplodeRow(df.rows[k], col)
         IN  [j \in 1..Len(new) |-> [idx |-> df.index[k], row |-> new[j]]]
                \o ExplodeFrom(df, col, k + 1)

\* DataFrame.explode(col): the rows keep their order and their index label
explode(df, col) ==
    IF df.exc # "" THEN df
    ELSE IF col \notin df.columns THEN RaisedFrame("KeyError")
    ELSE LET out == ExplodeFrom(df, col, 1)
         IN  Frame(df.columns,
                   [k \in 1..Len(out) |-> out[k].idx],
                   [k \in 1..Len(out) |-> out[k].row])

\* DataFrame.assign(col=values) with a list of values: by position
assign(df, col, values) ==
    IF df.exc # "" THEN df
    ELSE IF IsRaised(values) THEN RaisedFrame(values.v)
    ELSE Frame(df.columns \cup {col}, df.index,
               [k \in 1..Len(df.rows) |->
                   [c \in df.columns \cup {col} |->
                       IF c = col THEN values.v[k] ELSE df.rows[k][c]]])

\* .assign(col=lambda df: _expand_df(key=key, iterable=df[source]))
assign_expand(df, col, key, source) ==
    IF df.exc # "" THEN df
    ELSE IF source \notin df.columns THEN RaisedFrame("AttributeError")
    ELSE assign(df, col, _expand_df(key, Column(df, source)))

\* DataFrame.reset_index(drop=True)
reset_index(df) ==
    IF df.exc # "" THEN df
    ELSE Frame(df.columns, [k \in 1..Len(df.rows) |-> k - 1], df.rows)

\* DataFrame.drop(cols, axis=1, errors=...)
drop(df, cols, ignore) ==
    IF df.exc # "" THEN df
    ELSE IF ~ignore /\ ~(cols \subseteq df.columns) THEN RaisedFrame("KeyError")
    ELSE Frame(df.columns \ cols, df.index,
               [k \in 1..Len(df.rows) |->
                   [c \in df.columns \ cols |-> df.rows[k][c]]])

\* DataFrame.rename({old: new}, axis=1): a label that is no column is ignored
rename(df, old, new) ==
    IF df.exc # "" THEN df
    ELSE IF old \notin df.columns THEN df
    ELSE Frame((df.columns \ {old}) \cup {new}, df.index,
               [k \in 1..Len(df.rows) |->
                   [c \in (df.columns \ {old}) \cup {new} |->
                       IF c = new THEN df.rows[k][old] ELSE df.rows[k][c]]])

IsMissing(x) == x.t \in {"none", "nan"}

\* DataFrame.fillna({col: value})
fillna(df, col, value) ==
    IF df.exc # "" THEN df
    ELSE IF col \notin df.columns THEN df
    ELSE Frame(df.columns, df.index,
               [k \in 1..Len(df.rows) |->
                   [c \in df.columns |->
                       IF c = col /\ IsMissing(df.rows[k][c])
                       THEN value ELSE df.rows[k][c]]])

\* DataFrame.convert_dtypes(): a column holding nothing but strings and
\* missing values becomes a string column, whose missing values are pd.NA
convert_dtypes(df) ==
    LET stringColumn(c) ==
            \A k \in 1..Len(df.rows) :
                df.rows[k][c].t = "str" \/ IsMissing(df.rows[k][c])
    IN  Frame(df.columns, df.index,
              [k \in 1..Len(df.rows) |->
                  [c \in df.columns |->
                      IF stringColumn(c) /\ IsMissing(df.rows[k][c])
                      THEN NaN ELSE df.rows[k][c]]])

\* the columns convert_catalog_dtypes parses
datetime_cols(columns) ==
    {c \in columns : EndsWith(c, "_time") \/ c = "time"}

\* convert_catalog_dtypes
convert_catalog_dtypes(df) ==
    IF df.exc # "" THEN df
    ELSE LET d == convert_dtypes(df)
             cols == datetime_cols(d.columns)
             rows == [k \in 1..Len(d.rows) |->
                        [c \in d.columns |->
                            IF c \in cols THEN _convert_utc(d.rows[k][c])
                            ELSE d.rows[k][c]]]
             bad == {e \in {"ValueError"} :
                        \E k \in 1..Len(rows) : \E c \in cols :
                            IsRaised(rows[k][c])}
         IN  IF bad # {} THEN RaisedFrame("ValueError")
             ELSE Frame(d.columns, d.index, rows)


\* the label pandas gives position k of a value that is no dict
IntLabel(k) == "<" \o <<"0", "1", "2", "3", "4", "5", "6", "7", "8", "9">>[k + 1] \o ">"

\* the index of pd.Series(x): the keys of a dict, the positions of a list,
\* nothing for None, and 0 for any other scalar (the missing value included)
SeriesLabels(x) ==
    CASE x.t = "dict" -> DOMAIN x.v
      [] x.t = "list" -> {IntLabel(k - 1) : k \in 1..Len(x.v)}
      [] x.t = "none" -> {}
      [] OTHER -> {IntLabel(0)}

SeriesValue(x, label) ==
    CASE x.t = "dict" -> x.v[label]
      [] x.t = "list" -> x.v[CHOOSE k \in 1..Len(x.v) : IntLabel(k - 1) = label]
      [] OTHER -> x

\* df[col].apply(pd.Series): one column per label of any row's Series
apply_Series(df, col) ==
    IF df.exc # "" THEN df
    ELSE IF col \notin df.columns THEN RaisedFrame("KeyError")
    ELSE LET cells == Column(df, col)
             columns == UNION {SeriesLabels(cells[k]) : k \in 1..Len(cells)}
         IN  Frame(columns, df.index,
                   [k \in 1..Len(cells) |->
                       [c \in columns |->
                           IF c \in SeriesLabels(cells[k])
                           THEN SeriesValue(cells[k], c) ELSE NaN]])

\* the rows of `right` whose index label is idx, in order
RECURSIVE RowsAt(_, _, _)
RowsAt(right, idx, k) ==
    IF k > Len(right.rows) THEN <<>>
    ELSE (IF right.index[k] = idx THEN <<right.rows[k]>> ELSE <<>>)
            \o RowsAt(right, idx, k + 1)

\* the name a column of the right frame gets in a join
JoinedName_always_suffixed(left, c, rsuffix) == c \o rsuffix

JoinedName(left, c, rsuffix) == IF c \in left.columns THEN c \o rsuffix ELSE c

RECURSIVE JoinFrom(_, _, _, _)
JoinFrom(left, right, rsuffix, k) ==
    IF k > Len(left.rows) THEN <<>>
    ELSE LET found == RowsAt(right, left.index[k], 1)
             blank == [c \in right.columns |-> NaN]
             match == IF found = <<>> THEN <<blank>> ELSE found
             columns == left.columns
                            \cup {JoinedName(left, c, rsuffix) : c \in right.columns}
             source(c) == CHOOSE r \in right.columns :
                              JoinedName(left, r, rsuffix) = c
         IN  [j \in 1..Len(match) |->
                 [idx |-> left.index[k],
                  row |-> [c \in columns |->
                              IF c \in left.columns THEN left.rows[k][c]
                              ELSE match[j][source(c)]]]]
                \o JoinFrom(left, right, rsuffix, k + 1)

\* DataFrame.join(right, rsuffix=rsuffix): a left join on the index; a column
\* of `right` whose name `left` has too gets the suffix, the column of `left`
\* keeps its name (lsuffix is "")
join_frames(left, right, rsuffix) ==
    IF left.exc # "" THEN left
    ELSE IF right.exc # "" THEN right
    ELSE LET names == {JoinedName(left, c, rsuffix) : c \in right.columns}
         IN  IF \/ names \cap left.columns # {}
                \/ Cardinality(names) # Cardinality(right.columns)
             THEN RaisedFrame("MergeError")
             ELSE LET out == JoinFrom(left, right, rsuffix, 1)
                  IN  Frame(left.columns \cup names,
                            [k \in 1..Len(out) |-> out[k].idx],
                            [k \in 1..Len(out) |-> out[k].row])

(***************************************************************************)
(* The to_dataframe methods.                                               *)
(***************************************************************************)
\* The chain CatalogExchangesData (secondary_level "metrics"),
\* CatalogAssetPairsData, CatalogExchangeAssetsData, CatalogInstitutionsData
\* and CatalogMarketMetricsData share: explode("metrics"), assign metric and
\* frequencies, explode("frequencies"), assign frequency, min_time and
\* max_time, reset_index(drop=True), drop(["metrics", "frequencies"])
flatten_metrics(df) ==
    LET a == explode(df, "metrics")
        b == assign_expand(a, "metric", "metric", "metrics")
        c == assign_expand(b, "frequencies", "frequencies", "metrics")
        d == explode(c, "frequencies")
        e == assign_expand(d, "frequency", "frequency", "frequencies")
        f == assign_expand(e, "min_time", "min_time", "frequencies")
        g == assign_expand(f, "max_time", "max_time", "frequencies")
    IN  drop(reset_index(g), {"metrics", "frequencies"}, FALSE)

CatalogAssetPairsData_to_dataframe(s) ==
    convert_catalog_dtypes(flatten_metrics(DataFrame(s)))

CatalogExchangeAssetsData_to_dataframe(s) ==
    convert_catalog_dtypes(flatten_metrics(DataFrame(s)))

CatalogInstitutionsData_to_dataframe(s) ==
    convert_catalog_dtypes(flatten_metrics(DataFrame(s)))

CatalogMarketMetricsData_to_dataframe(s) ==
    convert_catalog_dtypes(flatten_metrics(DataFrame(s)))

\* the else branch of the secondary_level switch: raise ValueError(...)
secondary_level_else_pass(df) == df

secondary_level_else(df) == RaisedFrame("ValueError")

CatalogExchangesData_to_dataframe(s, level) ==
    LET df_exchanges == DataFrame(s)
    IN  convert_catalog_dtypes(
            IF level = None THEN df_exchanges
            ELSE IF level = Str("markets")
            THEN rename(explode(df_exchanges, "markets"), "markets", "market")
            ELSE IF level = Str("metrics") THEN flatten_metrics(df_exchanges)
            ELSE secondary_level_else(df_exchanges))

\* str.split("-")[0]
split_first(x) ==
    LET dashes == {k \in 1..Len(x) : SubSeq(x, k, k) = "-"}
    IN  IF dashes = {} THEN x
        ELSE SubSeq(x, 1, (CHOOSE k \in dashes : \A j \in dashes : k <= j) - 1)

\* x["market"].apply(lambda row: row.split("-")[0])
market_exchange(cells) ==
    IF \E k \in 1..Len(cells) : cells[k].t # "str" THEN Raised("AttributeError")
    ELSE List([k \in 1..Len(cells) |-> Str(split_first(cells[k].v))])

\* CatalogAssetsData.to_dataframe, secondary_level == "markets"
assets_markets(df_assets) ==
    LET a == rename(fillna(explode(df_assets, "markets"), "markets", Str("")),
                    "markets", "market")
        b == IF a.exc # "" THEN a
             ELSE IF "market" \notin a.columns THEN RaisedFrame("KeyError")
             ELSE assign(a, "exchange", market_exchange(Column(a, "market")))
    IN  reset_index(drop(b, {"exchanges"}, FALSE))

\* _assign_metric: x["metric"], None on TypeError
_assign_metric(x) ==
    LET r == GetItem(x, "metric")
    IN  IF IsRaised(r) /\ r.v = "TypeError" THEN None ELSE r

\* DataFrame.dropna(subset=[col])
RECURSIVE KeepFrom(_, _, _)
KeepFrom(df, col, k) ==
    IF k > Len(df.rows) THEN <<>>
    ELSE (IF IsMissing(df.rows[k][col]) THEN <<>>
          ELSE <<[idx |-> df.index[k], row |-> df.rows[k]]>>)
            \o KeepFrom(df, col, k + 1)

dropna(df, col) ==
    IF df.exc # "" THEN df
    ELSE IF col \notin df.columns THEN RaisedFrame("KeyError")
    ELSE LET out == KeepFrom(df, col, 1)
         IN  Frame(df.columns,
                   [k \in 1..Len(out) |-> out[k].idx],
                   [k \in 1..Len(out) |-> out[k].row])

\* two merge keys match when they are equal; missing values match each other
KeyMatch(x, y) == x = y \/ (IsMissing(x) /\ IsMissing(y))

RECURSIVE MatchesFrom(_, _, _, _)
MatchesFrom(right, on, row, k) ==
    IF k > Len(right.rows) THEN <<>>
    ELSE (IF \A c \in on : KeyMatch(row[c], right.rows[k][c])
          THEN <<right.rows[k]>> ELSE <<>>)
            \o MatchesFrom(right, on, row, k + 1)

RECURSIVE MergeFrom(_, _, _, _)
MergeFrom(left, right, on, k) ==
    IF k > Len(left.rows) THEN <<>>
    ELSE LET both == (left.columns \cap right.columns) \ on
             lname(c) == IF c \in both THEN c \o "_x" ELSE c
             rname(c) == IF c \in both THEN c \o "_y" ELSE c
             columns == {lname(c) : c \in left.columns}
                            \cup {rname(c) : c \in right.columns \ on}
             found == MatchesFrom(right, on, left.rows[k], 1)
             blank == [c \in right.columns |-> NaN]
             match == IF found = <<>> THEN <<blank>> ELSE found
         IN  [j \in 1..Len(match) |->
                 [c \in columns |->
                     IF \E l \in left.columns : lname(l) = c
                     THEN left.rows[k][CHOOSE l \in left.columns : lname(l) = c]
                     ELSE match[j][CHOOSE r \in right.columns \ on : rname(r) = c]]]
                \o MergeFrom(left, right, on, k + 1)

\* DataFrame.merge(right, on=on, how="left"): every row of `left`, in order,
\* once per row of `right` with the same keys and once when there is none;
\* other columns both frames have get the suffixes _x and _y
merge_left(left, right, on) ==
    IF left.exc # "" THEN left
    ELSE IF right.exc # "" THEN right
    ELSE IF ~(on \subseteq left.columns /\ on \subseteq right.columns)
    THEN RaisedFrame("KeyError")
    ELSE LET both == (left.columns \cap right.columns) \ on
             columns == {IF c \in both THEN c \o "_x" ELSE c : c \in left.columns}
                            \cup {IF c \in both THEN c \o "_y" ELSE c :
                                     c \in right.columns \ on}
             rows == MergeFrom(left, right, on, 1)
         IN  Frame(columns, [k \in 1..Len(rows) |-> k - 1], rows)

\* CatalogAssetsData.to_dataframe, secondary_level == "metrics"
assets_metrics(df) ==
    IF "asset" \notin df.columns THEN RaisedFrame("AttributeError")
    ELSE
    LET asset_mapper(idx) ==
            df.rows[CHOOSE k \in 1..Len(df.rows) : df.index[k] = idx]["asset"]
        exploded == explode(df, "metrics")
        metric == IF exploded.exc # "" THEN None
                  ELSE [k \in 1..Len(exploded.rows) |->
                            _assign_metric(exploded.rows[k]["metrics"])]
        df_assets == IF exploded.exc # "" THEN exploded
                     ELSE IF AnyRaised(metric)
                     THEN RaisedFrame(FirstRaised(metric).v)
                     ELSE assign(exploded, "metric", List(metric))
        kept == dropna(df_assets, "metrics")
        \* Series.apply on an empty column returns a Series, which has no
        \* column to set and no assign method
        expanded == IF kept.exc = "" /\ Len(kept.rows) = 0
                    THEN RaisedFrame("AttributeError")
                    ELSE apply_Series(kept, "metrics")
        with_asset == IF expanded.exc # "" THEN expanded
                      ELSE assign(expanded, "asset",
                                  List([k \in 1..Len(expanded.rows) |->
                                           asset_mapper(expanded.index[k])]))
        a == explode(with_asset, "frequencies")
        b == assign_expand(a, "frequency", "frequency", "frequencies")
        c == assign_expand(b, "min_time", "min_time", "frequencies")
        d == assign_expand(c, "max_time", "max_time", "frequencies")
        e == assign_expand(d, "min_height", "min_height", "frequencies")
        f == assign_expand(e, "max_height", "max_height", "frequencies")
        g == assign_expand(f, "min_hash", "min_hash", "frequencies")
        h == assign_expand(g, "max_hash", "max_hash", "frequencies")
        df_assets_metrics == drop(h, {"frequencies"}, FALSE)
    IN  reset_index(merge_left(drop(df_assets, {"metrics"}, FALSE),
                               df_assets_metrics, {"metric", "asset"}))

CatalogAssetsData_to_dataframe(s, level) ==
    LET df_assets == DataFrame(s)
    IN  convert_catalog_dtypes(
            IF level = None THEN df_assets
            ELSE IF level = Str("markets") THEN assets_markets(df_assets)
            ELSE IF level = Str("metrics") THEN assets_metrics(df_assets)
            ELSE secondary_level_else(df_assets))

\* CatalogMarketsData.to_dataframe: the loop over metadata, from its k-th name
metadata == <<"funding_rates", "openinterest", "liquidations">>

join_nested(df_markets, col) ==
    join_frames(df_markets,
                drop(apply_Series(df_markets, col), {IntLabel(0)}, TRUE),
                "_" \o col)

RECURSIVE join_metadata(_, _)
join_metadata(df_markets, k) ==
    IF k > Len(metadata) THEN df_markets
    ELSE IF df_markets.exc = "" /\ metadata[k] \in df_markets.columns
         THEN join_metadata(join_nested(df_markets, metadata[k]), k + 1)
         ELSE join_metadata(df_markets, k + 1)

CatalogMarketsData_to_dataframe(s) ==
    LET df_markets == join_metadata(join_nested(DataFrame(s), "trades"), 1)
    IN  convert_catalog_dtypes(
            drop(df_markets,
                 {"trades", "funding_rates", "openinterest", "liquidations"},
                 TRUE))

(***************************************************************************)
(* get_exchange_metrics_mapping of the exchange-metrics exporter.          *)
(***************************************************************************)
\* `if exchange_metrics:` for the value of data.get("metrics")
has_metrics_when_listed(exchange_metrics) == exchange_metrics.t = "list"

has_metrics(exchange_metrics) ==
    exchange_metrics.t = "list" /\ Len(exchange_metrics.v) > 0

\* supported_frequencies = [frequency_metadata['frequency'] for ... in metric['frequencies']]
supported_frequencies(metric) ==
    LET fs == GetItem(metric, "frequencies")
    IN  IF IsRaised(fs) THEN fs
        ELSE IF fs.t # "list" THEN Raised("TypeError")
        ELSE LET out == [j \in 1..Len(fs.v) |-> GetItem(fs.v[j], "frequency")]
             IN  IF AnyRaised(out) THEN FirstRaised(out) ELSE List(out)

\* the inner loop, from the k-th metric: metrics_filtered.append(metric['metric'])
RECURSIVE metrics_filtered(_, _, _)
metrics_filtered(exchange_metrics, freq, k) ==
    IF k > Len(exchange_metrics) THEN List(<<>>)
    ELSE LET metric == exchange_metrics[k]
             supported == supported_frequencies(metric)
             rest == metrics_filtered(exchange_metrics, freq, k + 1)
         IN  IF IsRaised(supported) THEN supported
             ELSE IF \E j \in 1..Len(supported.v) : supported.v[j] = Str(freq)
             THEN LET name == GetItem(metric, "metric")
                  IN  IF IsRaised(name) THEN name
                      ELSE IF IsRaised(rest) THEN rest
                      ELSE List(<<name>> \o rest.v)
             ELSE rest

\* the outer loop, from the k-th record, with result_dict as built so far
RECURSIVE mapping_from(_, _, _, _)
mapping_from(data_list, freq, k, dict) ==
    IF k > Len(data_list) THEN Dict(dict)
    ELSE LET data == data_list[k]
             exchange_metrics == IF "metrics" \in DOMAIN data
                                 THEN data["metrics"] ELSE None
         IN  IF has_metrics(exchange_metrics)
             THEN LET filtered == metrics_filtered(exchange_metrics.v, freq, 1)
                  IN  IF IsRaised(filtered) THEN filtered
                      ELSE IF "exchange" \notin DOMAIN data THEN Raised("KeyError")
                      ELSE mapping_from(data_list, freq, k + 1,
                               [e \in DOMAIN dict \cup {data["exchange"].v} |->
                                   IF e = data["exchange"].v THEN filtered
                                   ELSE dict[e]])
             ELSE mapping_from(data_list, freq, k + 1, dict)

get_exchange_metrics_mapping(data_list, freq) ==
    mapping_from(data_list, freq, 1, <<>>)

(***************************************************************************)
(* The inputs: catalogs as the API returns them, up to a weight.           *)
(***************************************************************************)
RecordNames == <<"btc", "eth", "ltc", "xrp", "ada", "dot">>

MetricNames == {"PriceUSD", "TxCnt"}

Frequencies == {"1d", "1h", "1b"}

FreqEntries ==
    {Dict([frequency |-> Str("1d"),
           min_time |-> Str("2010-07-17T00:00:00.000000000Z"),
           max_time |-> Str("2021-06-01T00:00:00.000000000Z")]),
     Dict([frequency |-> Str("1h"),
           min_time |-> Str("2015-08-08T00:00:00.000000000Z")])}

\* the lists of w frequency entries
RECURSIVE FreqLists(_)
FreqLists(w) ==
    IF w = 0 THEN {<<>>}
    ELSE {<<f>> \o r : f \in FreqEntries, r \in FreqLists(w - 1)}

\* the metric entries of weight w; `partial` admits an entry without frequencies
MetricEntries(w, partial) ==
    {Dict([metric |-> Str(n), frequencies |-> List(fl)]) :
        n \in MetricNames, fl \in FreqLists(w - 1)}
    \cup (IF partial /\ w = 1 THEN {Dict([metric |-> Str(n)]) : n \in MetricNames}
          ELSE {})

\* the lists of metric entries of total weight w
RECURSIVE MetricLists(_, _)
MetricLists(w, partial) ==
    IF w = 0 THEN {<<>>}
    ELSE UNION {{<<m>> \o r : m \in MetricEntries(k, partial),
                              r \in MetricLists(w - k, partial)} : k \in 1..w}

\* what a record of weight w has as its metrics: a list, or nothing at all
MetricsOfRecord(w, partial) ==
    {List(ml) : ml \in MetricLists(w - 1, partial)}
    \cup (IF w = 1 THEN {NaN} ELSE {})

\* the sequences of records' metrics of total weight w
RECURSIVE MetricsOfRecords(_, _)
MetricsOfRecords(w, partial) ==
    IF w = 0 THEN {<<>>}
    ELSE UNION {{<<m>> \o r : m \in MetricsOfRecord(k, partial),
                              r \in MetricsOfRecords(w - k, partial)} : k \in 1..w}

KeyField(c) ==
    CASE c = "CatalogAssetsData" -> "asset"
      [] c = "CatalogAssetPairsData" -> "pair"
      [] c = "CatalogExchangesData" -> "exchange"
      [] c = "CatalogExchangeAssetsData" -> "exchange_asset"
      [] c = "CatalogInstitutionsData" -> "institution"
      [] c = "CatalogMarketMetricsData" -> "market"
      [] c = "CatalogMarketsData" -> "market"

\* a record named after its position, with these fields besides
Record(c, k, fields) == (KeyField(c) :> Str(RecordNames[k])) @@ fields

MetricsField(m) == IF m = NaN THEN <<>> ELSE [metrics |-> m]

\* the non-empty catalogs of class c of weight up to w whose records carry
\* metrics (or lack the field)
MetricCatalogs(c, w, partial) ==
    UNION {{[k \in 1..Len(ms) |-> Record(c, k, MetricsField(ms[k]))] :
               ms \in MetricsOfRecords(v, partial)} : v \in 1..w}

\* the markets (and, of an asset, the exchanges) of the k-th record
MarketsOf(k) ==
    <<List(<<Str("coinbase-btc-usd-spot"), Str("kraken-btc-usd-spot")>>),
      List(<<>>),
      List(<<Str("bitstamp-eth-usd-spot")>>)>>[((k - 1) % 3) + 1]

ExchangesOf(k) ==
    <<List(<<Str("coinbase"), Str("kraken")>>),
      List(<<>>),
      List(<<Str("bitstamp")>>)>>[((k - 1) % 3) + 1]

\* the catalogs of assets or exchanges: records with markets and metrics
LevelCatalogs(c, w) ==
    UNION {{[k \in 1..Len(ms) |->
                Record(c, k,
                       MetricsField(ms[k]) @@ [markets |-> MarketsOf(k)]
                         @@ (IF c = "CatalogAssetsData"
                             THEN [exchanges |-> ExchangesOf(k)] ELSE <<>>))] :
               ms \in MetricsOfRecords(v, TRUE)} : v \in 1..w}

\* a record's metrics as the API lists them: every entry with its frequencies,
\* and no metric twice
DistinctMetrics(m) ==
    m = NaN \/ \A j, k \in 1..Len(m.v) : m.v[j].v.metric = m.v[k].v.metric => j = k

\* the non-empty catalogs of assets of weight up to w: an asset has markets,
\* exchanges and metrics, or lacks the metrics
AssetCatalogs(w) ==
    UNION {{[k \in 1..Len(ms) |->
                Record("CatalogAssetsData", k,
                       MetricsField(ms[k]) @@ [markets |-> MarketsOf(k)]
                         @@ [exchanges |-> ExchangesOf(k)])] :
               ms \in {x \in MetricsOfRecords(v, FALSE) :
                          \A k \in 1..Len(x) : DistinctMetrics(x[k])}} : v \in 1..w}

\* the values secondary_level is given
Levels ==
    {None, Str("markets"), Str("metrics"), Str("market"), Str("Metrics"),
     Str(""), IntVal(0)}

\* the time range of the k-th market's nested record `field`: the year tells the
\* market, the month the record
Years == <<"2011", "2012", "2013", "2014", "2015", "2016">>

Month(field) ==
    CASE field = "own" -> "01"
      [] field = "trades" -> "02"
      [] field = "funding_rates" -> "03"
      [] field = "openinterest" -> "04"
      [] field = "liquidations" -> "05"

TimeRange(k, field) ==
    Dict([min_time |-> Str(Years[k] \o "-" \o Month(field) \o "-01T00:00:00.000000000Z"),
          max_time |-> Str(Years[k] \o "-" \o Month(field) \o "-28T00:00:00.000000000Z")])

MarketParts == {"own", "trades", "funding_rates", "openinterest", "liquidations"}

\* the k-th market record carrying `parts`
MarketRecord(k, parts) ==
    LET nested == parts \ {"own"}
    IN  Record("CatalogMarketsData", k,
               [f \in nested |-> TimeRange(k, f)]
                 @@ (IF "own" \in parts THEN TimeRange(k, "own").v ELSE <<>>))

\* the sequences of sets of parts of total weight w
RECURSIVE MarketPartsSeqs(_)
MarketPartsSeqs(w) ==
    IF w = 0 THEN {<<>>}
    ELSE UNION {{<<ps>> \o r : ps \in {q \in SUBSET MarketParts :
                                          Cardinality(q) = k - 1},
                               r \in MarketPartsSeqs(w - k)} : k \in 1..w}

MarketCatalogs(w) ==
    UNION {{[k \in 1..Len(pss) |-> MarketRecord(k, pss[k])] :
               pss \in MarketPartsSeqs(v)} : v \in 1..w}

\* the values a row of an exploded column holds
RowValues ==
    {Dict([frequency |-> Str("1d"),
           min_time |-> Str("2010-07-17T00:00:00.000000000Z")]),
     Dict([frequency |-> Str("1h")]),
     Dict(<<>>),
     NaN, None, Str("1d"), List(<<Str("1d")>>), IntVal(0)}

Iterables == UNION {[1..n -> RowValues] : n \in 0..MaxRows}

(***************************************************************************)
(* The specifications: one per part of the program.  Each starts the part  *)
(* it is about on an input and leaves the others idle.                     *)
(***************************************************************************)
\* to_dataframe of class c
to_dataframe(c, s, level) ==
    CASE c = "CatalogAssetsData" -> CatalogAssetsData_to_dataframe(s, level)
      [] c = "CatalogExchangesData" -> CatalogExchangesData_to_dataframe(s, level)
      [] c = "CatalogAssetPairsData" -> CatalogAssetPairsData_to_dataframe(s)
      [] c = "CatalogExchangeAssetsData" -> CatalogExchangeAssetsData_to_dataframe(s)
      [] c = "CatalogInstitutionsData" -> CatalogInstitutionsData_to_dataframe(s)
      [] c = "CatalogMarketMetricsData" -> CatalogMarketMetricsData_to_dataframe(s)
      [] c = "CatalogMarketsData" -> CatalogMarketsData_to_dataframe(s)

\* self.to_dataframe(secondary_level)
ToDataframe ==
    /\ cpc = "ready"
    /\ result' = to_dataframe(cls, self, secondary_level)
    /\ cpc' = "done"
    /\ UNCHANGED <<cls, self, secondary_level>>
    /\ UNCHANGED <<exportVars, expandVars, mappingVars>>

\* _expand_df(key, iterable)
ExpandDf ==
    /\ epc = "ready"
    /\ eout' = _expand_df(ekey, erows)
    /\ epc' = "done"
    /\ UNCHANGED <<ekey, erows>>
    /\ UNCHANGED <<exportVars, catalogVars, mappingVars>>

\* get_exchange_metrics_mapping(exchanges, frequency)
GetExchangeMetricsMapping ==
    /\ mpc = "ready"
    /\ result_dict' = get_exchange_metrics_mapping(exchange_data, frequency)
    /\ mpc' = "done"
    /\ UNCHANGED <<exchange_data, frequency>>
    /\ UNCHANGED <<exportVars, catalogVars, expandVars>>

InitExport ==
    /\ ASSETS_TO_EXPORT \in SUBSET AssetUniverse
    /\ mainpc = "submit"
    /\ tasks = <<>>
    /\ taskState = <<>>
    /\ taskq = <<>>
    /\ worker = [w \in Workers |-> 0]
    /\ openFile = [w \in Workers |-> ""]
    /\ written = {}
    /\ i = 1
    /\ log = <<>>
    \* the other parts are idle
    /\ cls = ""
    /\ self = <<>>
    /\ secondary_level = None
    /\ cpc = "idle"
    /\ result = None
    /\ ekey = ""
    /\ erows = <<>>
    /\ epc = "idle"
    /\ eout = None
    /\ exchange_data = <<>>
    /\ frequency = ""
    /\ mpc = "idle"
    /\ result_dict = None

SpecExport == InitExport /\ [][NextExport]_vars

\* the two-level flatten of the classes whose records carry metrics
FlattenClasses ==
    {"CatalogExchangesData", "CatalogAssetPairsData", "CatalogExchangeAssetsData",
     "CatalogInstitutionsData", "CatalogMarketMetricsData"}

InitFlatten ==
    /\ cls \in FlattenClasses
    /\ self \in MetricCatalogs(cls, MaxWeight, TRUE)
    /\ secondary_level = (IF cls = "CatalogExchangesData" THEN Str("metrics") ELSE None)
    /\ cpc = "ready"
    /\ result = None
    \* the other parts are idle
    /\ ASSETS_TO_EXPORT = {}
    /\ mainpc = "idle"
    /\ tasks = <<>>
    /\ taskState = <<>>
    /\ taskq = <<>>
    /\ worker = [w \in Workers |-> 0]
    /\ openFile = [w \in Workers |-> ""]
    /\ written = {}
    /\ i = 1
    /\ log = <<>>
    /\ ekey = ""
    /\ erows = <<>>
    /\ epc = "idle"
    /\ eout = None
    /\ exchange_data = <<>>
    /\ frequency = ""
    /\ mpc = "idle"
    /\ result_dict = None

SpecFlatten == InitFlatten /\ [][ToDataframe]_vars

\* the secondary_level switch of the assets and the exchanges catalog
InitLevel ==
    /\ cls \in {"CatalogAssetsData", "CatalogExchangesData"}
    /\ self \in LevelCatalogs(cls, MaxWeight - 1)
    /\ secondary_level \in Levels
    /\ cpc = "ready"
    /\ result = None
    \* the other parts are idle
    /\ ASSETS_TO_EXPORT = {}
    /\ mainpc = "idle"
    /\ tasks = <<>>
    /\ taskState = <<>>
    /\ taskq = <<>>
    /\ worker = [w \in Workers |-> 0]
    /\ openFile = [w \in Workers |-> ""]
    /\ written = {}
    /\ i = 1
    /\ log = <<>>
    /\ ekey = ""
    /\ erows = <<>>
    /\ epc = "idle"
    /\ eout = None
    /\ exchange_data = <<>>
    /\ frequency = ""
    /\ mpc = "idle"
    /\ result_dict = None

SpecLevel == InitLevel /\ [][ToDataframe]_vars

\* the assets catalog flattened to its metrics
InitAssets ==
    /\ cls = "CatalogAssetsData"
    /\ self \in AssetCatalogs(MaxWeight + 2)
    /\ secondary_level = Str("metrics")
    /\ cpc = "ready"
    /\ result = None
    \* the other parts are idle
    /\ ASSETS_TO_EXPORT = {}
    /\ mainpc = "idle"
    /\ tasks = <<>>
    /\ taskState = <<>>
    /\ taskq = <<>>
    /\ worker = [w \in Workers |-> 0]
    /\ openFile = [w \in Workers |-> ""]
    /\ written = {}
    /\ i = 1
    /\ log = <<>>
    /\ ekey = ""
    /\ erows = <<>>
    /\ epc = "idle"
    /\ eout = None
    /\ exchange_data = <<>>
    /\ frequency = ""
    /\ mpc = "idle"
    /\ result_dict = None

SpecAssets == InitAssets /\ [][ToDataframe]_vars

\* the markets catalog
InitMarkets ==
    /\ cls = "CatalogMarketsData"
    /\ self \in MarketCatalogs(MaxMarketWeight)
    /\ secondary_level = None
    /\ cpc = "ready"
    /\ result = None
    \* the other parts are idle
    /\ ASSETS_TO_EXPORT = {}
    /\ mainpc = "idle"
    /\ tasks = <<>>
    /\ taskState = <<>>
    /\ taskq = <<>>
    /\ worker = [w \in Workers |-> 0]
    /\ openFile = [w \in Workers |-> ""]
    /\ written = {}
    /\ i = 1
    /\ log = <<>>
    /\ ekey = ""
    /\ erows = <<>>
    /\ epc = "idle"
    /\ eout = None
    /\ exchange_data = <<>>
    /\ frequency = ""
    /\ mpc = "idle"
    /\ result_dict = None

SpecMarkets == InitMarkets /\ [][ToDataframe]_vars

InitExpand ==
    /\ ekey \in {"frequency", "min_time", "max_time"}
    /\ erows \in Iterables
    /\ epc = "ready"
    /\ eout = None
    \* the other parts are idle
    /\ ASSETS_TO_EXPORT = {}
    /\ mainpc = "idle"
    /\ tasks = <<>>
    /\ taskState = <<>>
    /\ taskq = <<>>
    /\ worker = [w \in Workers |-> 0]
    /\ openFile = [w \in Workers |-> ""]
    /\ written = {}
    /\ i = 1
    /\ log = <<>>
    /\ cls = ""
    /\ self = <<>>
    /\ secondary_level = None
    /\ cpc = "idle"
    /\ result = None
    /\ exchange_data = <<>>
    /\ frequency = ""
    /\ mpc = "idle"
    /\ result_dict = None

SpecExpand == InitExpand /\ [][ExpandDf]_vars

InitMapping ==
    /\ exchange_data \in MetricCatalogs("CatalogExchangesData", MaxWeight, FALSE)
    /\ frequency \in Frequencies
    /\ mpc = "ready"
    /\ result_dict = None
    \* the other parts are idle
    /\ ASSETS_TO_EXPORT = {}
    /\ mainpc = "idle"
    /\ tasks = <<>>
    /\ taskState = <<>>
    /\ taskq = <<>>
    /\ worker = [w \in Workers |-> 0]
    /\ openFile = [w \in Workers |-> ""]
    /\ written = {}
    /\ i = 1
    /\ log = <<>>
    /\ cls = ""
    /\ self = <<>>
    /\ secondary_level = None
    /\ cpc = "idle"
    /\ result = None
    /\ ekey = ""
    /\ erows = <<>>
    /\ epc = "idle"
    /\ eout = None

SpecMapping == InitMapping /\ [][GetExchangeMetricsMapping]_vars

(***************************************************************************)
(* Claims about the reference-rates exporter.                              *)
(***************************************************************************)
Running == {k \in 1..Len(tasks) : taskState[k] = "running"}

\* C4: at no point are more than two export_asset_data jobs executing at the
\* same time, and a job starts only while fewer than two are executing, that is,
\* a third and later job starts only after a worker has finished its job.
C4_AtMostTwoJobsRunning ==
    /\ [](Cardinality(Running) <= 2)
    /\ [][\A k \in 1..Len(tasks) :
             (taskState[k] = "queued" /\ taskState'[k] = "running")
                => (Cardinality(Running) < 2 /\ Cardinality(Running') <= 2)]_vars

\* three jobs were queued: one has finished, and only then the third one joined
\* the other in execution
C4_Witness ==
    /\ Len(tasks) >= 3
    /\ Cardinality(Running) = 2
    /\ taskq = <<>>
    /\ \E k \in 1..Len(tasks) : taskState[k] \in {"done", "failed"}

\* C5: each asset of ASSETS_TO_EXPORT is submitted as exactly one job, a job
\* opens no file but <DST_ROOT>/<its asset>_reference_rates.json, and no two
\* jobs have the same file open for writing at the same time.
C5_JobsShareNoFile ==
    /\ \A k1, k2 \in 1..Len(tasks) : tasks[k1] = tasks[k2] => k1 = k2
    /\ Submitted \subseteq ASSETS_TO_EXPORT
    /\ mainpc # "submit" => Submitted = ASSETS_TO_EXPORT
    /\ \A p \in written :
          p[2] = "./data/" \o tasks[p[1]] \o "_reference_rates.json"
    /\ \A w1, w2 \in DOMAIN openFile :
          (w1 # w2 /\ openFile[w1] # "") => openFile[w1] # openFile[w2]

\* both workers have their destination file open at the same time
C5_Witness ==
    /\ \A w \in DOMAIN openFile : openFile[w] # ""
    /\ Cardinality(written) >= 2

\* C10: export_data returns normally only after every submitted job has
\* finished; the i-th progress message is emitted only after the i-th job has
\* finished, and the messages are 1/n, 2/n, ... in submission order; when a
\* job raised, export_data raises while waiting on that very job and emits no
\* progress message afterwards.
C10_ProgressInSubmissionOrder ==
    /\ [](/\ mainpc = "returned" =>
               /\ Submitted = ASSETS_TO_EXPORT
               /\ Len(log) = Len(tasks)
               /\ \A k \in 1..Len(tasks) : taskState[k] = "done"
          /\ \A j \in 1..Len(log) :
               /\ log[j] = [i |-> j, n |-> Len(tasks)]
               /\ taskState[j] = "done"
          /\ mainpc = "raised" =>
               /\ i \in 1..Len(tasks)
               /\ taskState[i] = "failed"
               /\ Len(log) = i - 1)
    /\ [][mainpc = "raised" => (mainpc' = "raised" /\ log' = log)]_vars

\* a later job finished before an earlier one, messages were emitted, and then
\* a job's exception was re-raised
C10_Witness ==
    /\ mainpc = "raised"
    /\ Len(log) >= 1
    /\ \E k \in 1..Len(tasks) : k > i /\ taskState[k] = "done"

(***************************************************************************)
(* Claims about the catalogs.                                              *)
(***************************************************************************)
\* a value of the dataframe is the input value: the very value, the datetime
\* parsed from it, or the missing value for a value the input does not have
SameValue(out, in) ==
    \/ out = in
    \/ IsMissing(out) /\ IsMissing(in)
    \/ out.t = "datetime" /\ in = Str(out.v)

\* x[f] of a record x, the missing value when x is no record or has no f
Field(x, f) == IF x.t = "dict" /\ f \in DOMAIN x.v THEN x.v[f] ELSE NaN

\* C1: to_dataframe of the assets and of the exchanges catalog raises
\* ValueError for every secondary_level other than None, "markets" and
\* "metrics": no dataframe is returned, and the call leaves the catalog list as
\* it was.
C1_UnknownLevelRaisesValueError ==
    /\ []((cpc = "done" /\ secondary_level \notin {None, Str("markets"), Str("metrics")})
            => (result.exc = "ValueError" /\ result.columns = {} /\ result.rows = <<>>))
    /\ [][(cpc = "ready" /\ cpc' = "done") => self' = self]_vars

\* a misspelt level was given to the assets catalog, and ValueError came back
C1_Witness ==
    /\ cpc = "done"
    /\ cls = "CatalogAssetsData"
    /\ secondary_level = Str("market")
    /\ Len(self) >= 2
    /\ result.exc = "ValueError"

\* C2: to_dataframe raises ValueError for every secondary_level that is
\* neither "markets" nor "metrics".
C2_NeitherMarketsNorMetricsRaises ==
    (cpc = "done" /\ secondary_level \notin {Str("markets"), Str("metrics")})
        => result.exc = "ValueError"

\* C3: _expand_df returns a list as long as its input whose k-th element is
\* row[key] for a record that has the key and None for a record without it and
\* for a row that is no record; it never raises.
C3_ExpandDfSubstitutesNone ==
    epc = "done" =>
        /\ eout.t = "list"
        /\ Len(eout.v) = Len(erows)
        /\ \A k \in 1..Len(erows) :
              eout.v[k] = IF erows[k].t = "dict" /\ ekey \in DOMAIN erows[k].v
                          THEN erows[k].v[ekey] ELSE None

\* the input held a record with the key, a record without it and the missing
\* value an exploded empty list leaves
C3_Witness ==
    /\ epc = "done"
    /\ \E a, b, c \in 1..Len(erows) :
          /\ erows[a].t = "dict" /\ ekey \in DOMAIN erows[a].v
          /\ erows[b].t = "dict" /\ ekey \notin DOMAIN erows[b].v
          /\ erows[c] = NaN
          /\ eout.v[a].t = "str" /\ eout.v[b] = None /\ eout.v[c] = None

\* a string that is an ISO-8601 timestamp
IsTimestamp(x) == x.t = "str" /\ isoparse(x).t = "datetime"

\* C6: no column of the dataframe a catalog's to_dataframe returns holds a raw
\* timestamp string: each timestamp of the catalog, those of a market's nested
\* records included, is a parsed datetime there.
C6_TimestampsAreParsed ==
    (cpc = "done" /\ result.exc = "") =>
        \A k \in 1..Len(result.rows) : \A c \in result.columns :
            ~IsTimestamp(result.rows[k][c])

\* the exchanges of the catalog that have a non-empty metrics list
WithMetrics ==
    {k \in 1..Len(exchange_data) :
        /\ "metrics" \in DOMAIN exchange_data[k]
        /\ Len(exchange_data[k].metrics.v) > 0}

\* the names of the metrics among ms that list the frequency f, in order
NamesAt(ms, f) ==
    LET lists(m) == \E j \in 1..Len(m.v.frequencies.v) :
                        m.v.frequencies.v[j].v.frequency = Str(f)
        chosen == SelectSeq(ms, lists)
    IN  [k \in 1..Len(chosen) |-> chosen[k].v.metric]

TriplesOfMetric(r, m) ==
    LET fs == Field(m, "frequencies")
    IN  IF fs.t # "list" \/ Len(fs.v) = 0
        THEN <<[record |-> r, metric |-> m, freq |-> NaN]>>
        ELSE [j \in 1..Len(fs.v) |-> [record |-> r, metric |-> m, freq |-> fs.v[j]]]

RECURSIVE TriplesOfMetrics(_, _, _)
TriplesOfMetrics(r, ms, k) ==
    IF k > Len(ms) THEN <<>>
    ELSE TriplesOfMetric(r, ms[k]) \o TriplesOfMetrics(r, ms, k + 1)

TriplesOfRecord(r) ==
    IF Len(r.metrics.v) = 0
    THEN <<[record |-> r, metric |-> NaN, freq |-> NaN]>>
    ELSE TriplesOfMetrics(r, r.metrics.v, 1)

RECURSIVE Triples(_, _)
Triples(catalog, k) ==
    IF k > Len(catalog) THEN <<>>
    ELSE TriplesOfRecord(catalog[k]) \o Triples(catalog, k + 1)

\* C8: the two-level flatten of a catalog whose records carry metrics returns
\* one row per (record, metric entry, frequency entry), in input order, a
\* record without metric entries and a metric without frequency entries giving
\* one row; the metric, frequency, min_time and max_time of a row are those of
\* its triple, its other values those of its record; metrics and frequencies
\* are no columns of the result.
C8_OneRowPerRecordMetricFrequency ==
    (cpc = "done" /\ \A k \in 1..Len(self) : "metrics" \in DOMAIN self[k]) =>
        LET triples == Triples(self, 1)
        IN  /\ result.exc = ""
            /\ result.columns
                 = {KeyField(cls), "metric", "frequency", "min_time", "max_time"}
            /\ Len(result.rows) = Len(triples)
            /\ \A p \in 1..Len(triples) :
                  LET row == result.rows[p]
                      t == triples[p]
                  IN  /\ row[KeyField(cls)] = t.record[KeyField(cls)]
                      /\ SameValue(row["metric"], Field(t.metric, "metric"))
                      /\ SameValue(row["frequency"], Field(t.freq, "frequency"))
                      /\ SameValue(row["min_time"], Field(t.freq, "min_time"))
                      /\ SameValue(row["max_time"], Field(t.freq, "max_time"))

\* an exchanges catalog with a record that has no metric entries and a record
\* with a metric that has frequency entries was flattened
C8_Witness ==
    /\ cpc = "done"
    /\ cls = "CatalogExchangesData"
    /\ result.exc = ""
    /\ \A k \in 1..Len(self) : "metrics" \in DOMAIN self[k]
    /\ \E k \in 1..Len(self) : Len(self[k].metrics.v) = 0
    /\ \E k \in 1..Len(self) : \E j \in 1..Len(self[k].metrics.v) :
          /\ Field(self[k].metrics.v[j], "frequencies").t = "list"
          /\ Len(self[k].metrics.v[j].v.frequencies.v) > 0
    /\ Len(result.rows) >= 2

\* the nested records of a market, in the order to_dataframe joins them
NestedColumns == <<"trades", "funding_rates", "openinterest", "liquidations">>

TopColumns == UNION {DOMAIN self[k] : k \in 1..Len(self)}

\* the sub-fields any market's nested record n has
SubFields(n) ==
    UNION {DOMAIN self[k][n].v : k \in {j \in 1..Len(self) : n \in DOMAIN self[j]}}

\* the columns there are once the first j nested records are joined
RECURSIVE ColumnsAfter(_)
ColumnsAfter(j) ==
    IF j = 0 THEN TopColumns
    ELSE LET before == ColumnsAfter(j - 1)
             n == NestedColumns[j]
         IN  IF n \notin TopColumns THEN before
             ELSE before \cup {IF f \in before THEN f \o "_" \o n ELSE f :
                                  f \in SubFields(n)}

\* the column the sub-field f of the j-th nested record becomes
ColumnOf(j, f) ==
    IF f \in ColumnsAfter(j - 1) THEN f \o "_" \o NestedColumns[j] ELSE f

MetricsOf(r) == IF "metrics" \in DOMAIN r THEN r.metrics.v ELSE <<>>

\* the (asset, metric entry, frequency entry) triples of an assets catalog, in
\* input order; an asset without metrics stands once, with metric and
\* frequency absent
RECURSIVE AssetTriples(_, _)
AssetTriples(catalog, k) ==
    IF k > Len(catalog) THEN <<>>
    ELSE (IF Len(MetricsOf(catalog[k])) = 0
          THEN <<[record |-> catalog[k], metric |-> NaN, freq |-> NaN]>>
          ELSE TriplesOfMetrics(catalog[k], MetricsOf(catalog[k]), 1))
            \o AssetTriples(catalog, k + 1)

\* the rows of the result are the triples: as many, in input order, each with
\* the asset of its record and the metric and frequency data of its own
\* triple, all of them absent for an asset without metrics
RowsAreTriples ==
    LET triples == AssetTriples(self, 1)
    IN  /\ result.exc = ""
        /\ Len(result.rows) = Len(triples)
        /\ \A p \in 1..Len(triples) :
              LET row == result.rows[p]
                  t == triples[p]
              IN  /\ row["asset"] = t.record["asset"]
                  /\ SameValue(row["metric"], Field(t.metric, "metric"))
                  /\ SameValue(row["frequency"], Field(t.freq, "frequency"))
                  /\ SameValue(row["min_time"], Field(t.freq, "min_time"))
                  /\ SameValue(row["max_time"], Field(t.freq, "max_time"))

\* C11: CatalogAssetsData.to_dataframe(secondary_level="metrics") returns, for
\* every non-empty list of asset records, one row per (asset record, metric
\* entry, frequency entry) of the input and one row for each asset that has no
\* metrics, with metric and frequency absent: no asset is lost, no row is
\* duplicated, and no row carries the frequency data of another asset.
C11_AssetsMetricsOneRowPerTriple ==
    cpc = "done" => RowsAreTriples

\* the same for the catalogs in which some asset has a metric
AssetsMetricsWhenSomeMetric ==
    (cpc = "done" /\ \E k \in 1..Len(self) : Len(MetricsOf(self[k])) > 0) =>
        RowsAreTriples

\* two assets list the same metric with different frequencies, and a third
\* asset has no metrics
AssetsMetricsShared ==
    /\ cpc = "done"
    /\ result.exc = ""
    /\ \E j, k \in 1..Len(self) :
          /\ j # k
          /\ Len(MetricsOf(self[j])) > 0 /\ Len(MetricsOf(self[k])) > 0
          /\ self[j].metrics.v[1].v.metric = self[k].metrics.v[1].v.metric
          /\ self[j].metrics.v[1].v.frequencies # self[k].metrics.v[1].v.frequencies
    /\ \E k \in 1..Len(self) : Len(MetricsOf(self[k])) = 0

\* no asset of the catalog has metrics, and to_dataframe raised
C11_NoMetricsRaises ==
    /\ cpc = "done"
    /\ Len(self) = 2
    /\ "metrics" \notin DOMAIN self[1]
    /\ "metrics" \in DOMAIN self[2] /\ Len(self[2].metrics.v) = 0
    /\ result.exc # ""

====
